---- MODULE Spec2Model ----
(***************************************************************************)
(* Desktop-duplication capture engine: the duplication context             *)
(* (src/src/duplicate_context.rs), the descriptor / frame-info helpers     *)
(* (src/src/utils.rs) and the two capturers (src/src/capturer/custom.rs,   *)
(* src/src/capturer/simple.rs).                                            *)
(*                                                                         *)
(* One capturer (custom or simple) is constructed per behaviour; every     *)
(* public operation of the capturer is one action.  The operating system   *)
(* side (compositor, GPU) is the nondeterministic input of each action.    *)
(***************************************************************************)
EXTENDS Integers, Sequences, FiniteSets, TLC

VARIABLES
  kind,                              \* "custom" | "simple": which capturer was constructed
  desc,                              \* DXGI_OUTPUT_DESC of the display now (its DesktopCoordinates)
  dpi,                               \* effective DPI of the display now
  texture,                           \* D3D11_TEXTURE2D_DESC the staging texture was created with
  buffer,                            \* destination buffer (Vec<u8> / &mut [u8])
  pointer_shape_buffer,              \* capturer.pointer_shape_buffer
  pointer_shape_buffer_size,         \* capturer.pointer_shape_buffer_size
  last_pointer_shape_buffer,         \* SimpleCapturer.last_pointer_shape_buffer
  last_pointer_shape_buffer_size,    \* SimpleCapturer.last_pointer_shape_buffer_size
  held,                              \* the duplication session holds an acquired frame
  mapped,                            \* the staging texture is mapped for CPU read
  alive,                             \* the process has not been killed by a memory fault
  acquireWhileHeld,                  \* history: AcquireNextFrame was issued while a frame was held
  acquireAttempts,                   \* AcquireNextFrame calls the last operation issued
  copied,                            \* bytes the last operation's copy_nonoverlapping transferred
  call,                              \* record of the last capturer operation
  pure                               \* record of the last pure-function application

vars == <<kind, desc, dpi, texture, buffer, pointer_shape_buffer,
          pointer_shape_buffer_size, last_pointer_shape_buffer,
          last_pointer_shape_buffer_size, held, mapped, alive,
          acquireWhileHeld, acquireAttempts, copied, call, pure>>

capturerVars == <<kind, desc, dpi, texture, buffer, pointer_shape_buffer,
                  pointer_shape_buffer_size, last_pointer_shape_buffer,
                  last_pointer_shape_buffer_size, held, mapped, alive,
                  acquireWhileHeld, acquireAttempts, copied, call>>

----------------------------------------------------------------------------
(* Bounds *)

MaxDim == 2          \* display widths 1..MaxDim (logical pixels)
MaxShape == 1        \* longest pointer-shape bitmap, in bytes
MaxSlack == 1        \* a caller's buffer is within MaxSlack bytes of the required size

(* Program constants *)

BytesPerPixel == 4   \* BGRA32
BaseDpi == 96        \* DPI at scale 1

----------------------------------------------------------------------------
(* Sequence helpers *)

Fill(n, v) == [i \in 1..n |-> v]

Prefix(s, n) == [i \in 1..n |-> s[i]]

Count(s, x) == Cardinality({i \in 1..Len(s) : s[i] = x})

IsPrefixOf(s, t) == Len(s) <= Len(t) /\ \A i \in 1..Len(s) : s[i] = t[i]

RECURSIVE SeqsUpTo(_, _)
SeqsUpTo(S, n) ==
  IF n = 0 THEN {<<>>}
  ELSE LET shorter == SeqsUpTo(S, n - 1)
       IN shorter \cup {Append(s, x) : s \in {t \in shorter : Len(t) = n - 1}, x \in S}

----------------------------------------------------------------------------
(* src/src/utils.rs: descriptor and frame-info helpers *)

\* DXGI_OUTPUT_DESC.DesktopCoordinates
Rect(l, t, r, b) == [left |-> l, top |-> t, right |-> r, bottom |-> b]

\* OutputDescExt::width: (right - left) as u32.  Every descriptor of the
\* model has 0 <= left <= right < 2^31, where the cast changes nothing.
width(d) == d.right - d.left

\* OutputDescExt::height: (bottom - top) as u32
height(d) == d.bottom - d.top

\* Unsigned integers wider than the model checker's are little-endian
\* sequences of bytes (limbs).
RECURSIVE LimbsOf(_, _)
LimbsOf(n, k) == IF k = 0 THEN <<>> ELSE <<n % 256>> \o LimbsOf(n \div 256, k - 1)

\* a u32 (given as a number below 2^31)
U32(n) == LimbsOf(n, 4)

RECURSIVE ColumnSum(_, _, _, _)
ColumnSum(a, b, k, i) ==
  IF i > Len(a) THEN 0
  ELSE (IF k - i + 1 \in 1..Len(b) THEN a[i] * b[k - i + 1] ELSE 0)
       + ColumnSum(a, b, k, i + 1)

RECURSIVE MulFrom(_, _, _, _)
MulFrom(a, b, k, carry) ==
  IF k > Len(a) + Len(b) THEN <<>>
  ELSE LET t == ColumnSum(a, b, k, 1) + carry
       IN <<t % 256>> \o MulFrom(a, b, k + 1, t \div 256)

\* the mathematical product of two limb sequences, Len(a) + Len(b) limbs
MulLimbs(a, b) == MulFrom(a, b, 1, 0)

Pad(a, k) == a \o Fill(k - Len(a), 0)

\* u32 * u32 as the build computes it: the low 32 bits, and whether the
\* product did not fit (a debug build panics there, a release build wraps)
MulU32(a, b) ==
  LET full == MulLimbs(a, b)
  IN [value |-> SubSeq(full, 1, 4), overflow |-> \E i \in 5..Len(full) : full[i] # 0]

\* OutputDescExt::calc_buffer_size:
\*   (self.width() * self.height() * 4) as usize
\* The products are u32 products; the result is widened afterwards.
calc_buffer_size(d, build) ==
  LET wh == MulU32(U32(width(d)), U32(height(d)))
      whb == MulU32(wh.value, U32(BytesPerPixel))
  IN IF build = "debug" /\ (wh.overflow \/ whb.overflow)
     THEN [panicked |-> TRUE, bytes |-> Pad(<<>>, 8)]
     ELSE [panicked |-> FALSE, bytes |-> Pad(whb.value, 8)]

\* FrameInfoExt::desktop_updated: self.LastPresentTime > 0
desktop_updated(info) == info.LastPresentTime > 0

\* (mutant of mouse_updated) the opposite polarity: a non-zero timestamp
mouse_updated_when_nonzero(info) == info.LastMouseUpdateTime # 0

\* FrameInfoExt::mouse_updated: self.LastMouseUpdateTime == 0
mouse_updated(info) == info.LastMouseUpdateTime = 0

----------------------------------------------------------------------------
(* Parts of the duplication context the capturers call whose code is not   *)
(* in the source tree: modelled from the specification.                    *)

\* physical (DPI-adjusted) pixel extent of a logical extent
pixel_width(d, scale) == (width(d) * scale) \div BaseDpi

pixel_height(d, scale) == (height(d) * scale) \div BaseDpi

\* requiredBufferBytes = physicalWidth * physicalHeight * 4
required_buffer_bytes(d, scale) ==
  pixel_width(d, scale) * pixel_height(d, scale) * BytesPerPixel

\* extractPointerShape: grow the caller's buffer if it is undersized, then
\* write the new bitmap at its start.
extract_pointer_shape(buf, shape) ==
  LET grown == IF Len(buf) < Len(shape)
               THEN buf \o Fill(Len(shape) - Len(buf), 0)
               ELSE buf
  IN [i \in 1..Len(grown) |-> IF i <= Len(shape) THEN shape[i] ELSE grown[i]]

----------------------------------------------------------------------------
(* src/src/duplicate_context.rs *)

\* What the operating system can do to one call: the step that fails.
\*   timeout, lost : AcquireNextFrame returns WAIT_TIMEOUT / ACCESS_LOST
\*   cast          : the acquired resource does not cast to ID3D11Texture2D
\*   release       : ReleaseFrame returns an error
\*   surface       : the staging texture does not cast to IDXGISurface1
\*   map, unmap    : IDXGISurface1::Map / Unmap returns an error
Faults == {"none", "timeout", "lost", "cast", "release", "surface", "map", "unmap"}

\* The steps of one successful capture, in program order.
FullCapture == <<"acquire", "copy", "release", "map", "memcpy", "unmap">>

\* DuplicateContext::create_readable_texture: the texture description
\* (Width: desc.width(), Height: desc.height(), B8G8R8A8, one mip level)
create_readable_texture(d) == [Width |-> width(d), Height |-> height(d)]

\* bytes of the mapped surface of a staging texture: Height rows of
\* Width * 4 bytes
surface_bytes(tex) == tex.Width * tex.Height * BytesPerPixel

\* What an over-long read of the mapped surface can do (undefined
\* behaviour): fault and kill the process, or read whatever byte lies behind
\* the surface.
UBOutcomes ==
  {[crash |-> TRUE, byte |-> 0]} \cup {[crash |-> FALSE, byte |-> b] : b \in {0, 1}}

\* The state a capture call threads through its steps:
\*   held, whileHeld, mapped : the session (see the variables)
\*   steps                   : the steps of this call that ran, in order
\*   attempts                : the AcquireNextFrame calls this call issued
\*   copied                  : the bytes copy_nonoverlapping was asked to transfer
\*   dest                    : the destination bytes
\*   outcome                 : "Running", then "Ok", "Panic" (an unwrap on an
\*                             error unwinds out of the call at that point) or
\*                             "Crash" (the process was killed by a fault)
Begin(h, wh, m, dest) ==
  [held |-> h, whileHeld |-> wh, mapped |-> m, steps |-> <<>>,
   attempts |-> 0, copied |-> 0, dest |-> dest, outcome |-> "Running"]

Panic(st) == [st EXCEPT !.outcome = "Panic"]

\* self.output_duplication.AcquireNextFrame(..).unwrap(): the session
\* refuses a second acquire while a frame is held.
AcquireNextFrame(st, fault) ==
  IF st.outcome # "Running" THEN st
  ELSE LET issued == [st EXCEPT !.whileHeld = st.whileHeld \/ st.held,
                                !.attempts = st.attempts + 1] IN
       IF st.held \/ fault \in {"timeout", "lost"}
       THEN Panic(issued)
       ELSE [issued EXCEPT !.held = TRUE, !.steps = Append(st.steps, "acquire")]

\* let texture: ID3D11Texture2D = resource.unwrap().cast().unwrap();
CastResource(st, fault) ==
  IF st.outcome # "Running" THEN st
  ELSE IF fault = "cast" THEN Panic(st) ELSE st

\* self.device_context.CopyResource(readable_texture, &texture);
CopyResource(st) ==
  IF st.outcome # "Running" THEN st
  ELSE [st EXCEPT !.steps = Append(st.steps, "copy")]

\* self.output_duplication.ReleaseFrame().unwrap(): the frame is given back;
\* an error result panics after the call was made.
ReleaseFrame(st, fault) ==
  IF st.outcome # "Running" THEN st
  ELSE LET released == [st EXCEPT !.held = FALSE, !.steps = Append(st.steps, "release")]
       IN IF fault = "release" THEN Panic(released) ELSE released

\* readable_texture.cast().unwrap()
CastSurface(st, fault) ==
  IF st.outcome # "Running" THEN st
  ELSE IF fault = "surface" THEN Panic(st) ELSE st

\* DuplicateContext::acquire_next_frame
acquire_next_frame(st, fault) ==
  CastSurface(
    ReleaseFrame(
      CopyResource(CastResource(AcquireNextFrame(st, fault), fault)),
      fault),
    fault)

\* frame.Map(&mut mapped_surface, DXGI_MAP_READ).unwrap();
Map(st, fault) ==
  IF st.outcome # "Running" THEN st
  ELSE IF fault = "map" THEN Panic(st)
  ELSE [st EXCEPT !.mapped = TRUE, !.steps = Append(st.steps, "map")]

\* ptr::copy_nonoverlapping(mapped_surface.pBits, dest, len): len bytes are
\* copied whatever the size of the mapped surface; a read past its end is
\* undefined behaviour.
copy_nonoverlapping(st, len, tex, pix, ub) ==
  IF st.outcome # "Running" THEN st
  ELSE IF len > surface_bytes(tex) /\ ub.crash
  THEN [st EXCEPT !.outcome = "Crash", !.steps = Append(st.steps, "memcpy"),
                  !.copied = len]
  ELSE [st EXCEPT
          !.steps = Append(st.steps, "memcpy"),
          !.copied = len,
          !.dest = [i \in 1..Len(st.dest) |->
                      IF i > len THEN st.dest[i]
                      ELSE IF i <= surface_bytes(tex) THEN pix ELSE ub.byte]]

\* (mutant of Unmap) the Unmap call is forgotten
UnmapForgotten(st, fault) == st

\* frame.Unmap().unwrap(): the surface is unmapped; an error result panics
\* after the call was made.
Unmap(st, fault) ==
  IF st.outcome # "Running" THEN st
  ELSE LET unmapped == [st EXCEPT !.mapped = FALSE, !.steps = Append(st.steps, "unmap")]
       IN IF fault = "unmap" THEN Panic(unmapped) ELSE unmapped

Return(st) == IF st.outcome = "Running" THEN [st EXCEPT !.outcome = "Ok"] ELSE st

\* DuplicateContext::capture_frame
capture_frame(st, len, tex, fault, pix, ub) ==
  Return(
    Unmap(
      copy_nonoverlapping(Map(acquire_next_frame(st, fault), fault), len, tex, pix, ub),
      fault))

\* DuplicateContext::get_desc: self.output.GetDesc(&mut desc).unwrap()
get_desc(d, qfault) == IF qfault = "desc" THEN "Panic" ELSE "Ok"

----------------------------------------------------------------------------
(* The context's capture-with-pointer-shape composite (code not in the     *)
(* source tree, modelled from the specification): captureOnce, then        *)
(* extractPointerShape gated on the mouse-update flag of the frame info.   *)

ctx_capture_with_pointer_shape(st, len, tex, fault, pix, ub, info, shape, psb) ==
  LET c == capture_frame(st, len, tex, fault, pix, ub) IN
  IF c.outcome = "Ok" /\ mouse_updated(info)
  THEN [st |-> c, psb |-> extract_pointer_shape(psb, shape), some |-> TRUE]
  ELSE [st |-> c, psb |-> psb, some |-> FALSE]

\* effective_dpi(&desc)?: the DPI query can fail
effective_dpi(qfault) == IF qfault = "dpi" THEN "QueryError" ELSE "Ok"

----------------------------------------------------------------------------
(* Inputs *)

Dims == 1..MaxDim

\* output descriptors: displays one pixel row high, at the origin
Geoms == {Rect(0, 0, w, 1) : w \in Dims}

Dpis == {BaseDpi, 2 * BaseDpi}

\* display modes <<extent, dpi>>
Modes == Geoms \X Dpis

\* the byte a desktop frame is filled with (the buffers start zeroed)
Pixels == {1}

\* pointer-shape bitmaps: two byte values, so that two bitmaps of one length differ
Shapes == SeqsUpTo({1, 2}, MaxShape)

\* LastPresentTime / LastMouseUpdateTime of a frame: zero or not
Times == {0, 1}

\* the query of check_buffer that fails: the simple capturer asks for the
\* output descriptor and the DPI, the custom one for neither
QueryFaults(k) == IF k = "simple" THEN {"none", "desc", "dpi"} ELSE {"none"}

\* the frames that make a difference to a call with this fault: the bytes
\* and the frame info are only looked at once the frame was copied out.  No
\* capturer reads LastPresentTime, so the frames are those of a redrawn desktop.
Frames(fault, pixels, shapes) ==
  IF fault \in {"none", "unmap"}
  THEN [pix : pixels, present : {1}, mouse : Times, shape : shapes]
  ELSE {[pix |-> 1, present |-> 1, mouse |-> 1, shape |-> <<>>]}

\* the outcomes of the byte copy that make a difference
UBs(len, tex) ==
  IF len > surface_bytes(tex) THEN UBOutcomes ELSE {[crash |-> FALSE, byte |-> 0]}

\* DXGI_OUTDUPL_FRAME_INFO of an acquired frame; shape is the bitmap the
\* compositor has for it, PointerShapeBufferSize its byte size.
FrameInfo(present, mouse, shape) ==
  [LastPresentTime |-> present, LastMouseUpdateTime |-> mouse,
   PointerShapeBufferSize |-> Len(shape)]

NoInfo == [LastPresentTime |-> 1, LastMouseUpdateTime |-> 1, PointerShapeBufferSize |-> 0]

NoPure == [fn |-> "none"]

----------------------------------------------------------------------------
(* src/src/capturer/custom.rs and src/src/capturer/simple.rs *)

\* (mutant of custom_check_buffer) the size of the unscaled display is required
custom_check_buffer_unscaled(len, d, scale) ==
  IF len < required_buffer_bytes(d, BaseDpi) THEN "InvalidBufferLength" ELSE "Ok"

\* (mutant of custom_check_buffer) off by one: a buffer one byte short passes
custom_check_buffer_off_by_one(len, d, scale) ==
  IF len + 1 < required_buffer_bytes(d, scale) THEN "InvalidBufferLength" ELSE "Ok"

\* CustomCapturer::check_buffer
custom_check_buffer(len, d, scale) ==
  IF len < required_buffer_bytes(d, scale) THEN "InvalidBufferLength" ELSE "Ok"

\* SimpleCapturer::check_buffer
simple_check_buffer(len, d, scale, qfault) ==
  IF get_desc(d, qfault) # "Ok" THEN get_desc(d, qfault)
  ELSE IF effective_dpi(qfault) # "Ok" THEN effective_dpi(qfault)
  ELSE IF len < required_buffer_bytes(d, scale) THEN "InvalidBufferLength"
  ELSE "Ok"

\* (mutant of check_buffer) the extent cached at construction, that of the
\* staging texture, is checked instead of the display's
check_buffer_cached(k, len, d, scale, qfault) ==
  IF len < required_buffer_bytes(Rect(0, 0, texture.Width, texture.Height), scale)
  THEN "InvalidBufferLength" ELSE "Ok"

\* Capturer::check_buffer of the capturer that was constructed
check_buffer(k, len, d, scale, qfault) ==
  IF k = "custom" THEN custom_check_buffer(len, d, scale)
  ELSE simple_check_buffer(len, d, scale, qfault)

\* Capturer::pointer_shape_buffer: &self.pointer_shape_buffer[..self.pointer_shape_buffer_size]
pointer_shape_buffer_view(buf, size) == Prefix(buf, size)

\* SimpleCapturer::pointer_shape_updated
pointer_shape_updated(cur, curSize, last, lastSize) ==
  curSize # lastSize \/ Prefix(cur, curSize) # Prefix(last, curSize)

\* The pointer-shape fields of a capturer.
PointerState(cur, curSize, last, lastSize) ==
  [pointer_shape_buffer |-> cur, pointer_shape_buffer_size |-> curSize,
   last_pointer_shape_buffer |-> last, last_pointer_shape_buffer_size |-> lastSize]

\* CustomCapturer::capture_with_pointer_shape, after the context call
\* returned Ok: record the size if a shape was produced.
custom_record_pointer_shape(p, r, info) ==
  IF r.some
  THEN [p EXCEPT !.pointer_shape_buffer = r.psb,
                 !.pointer_shape_buffer_size = info.PointerShapeBufferSize]
  ELSE [p EXCEPT !.pointer_shape_buffer = r.psb]

\* (mutant of simple_record_pointer_shape) the size is recorded but the
\* slots are not swapped
simple_record_without_swap(p, r, info) ==
  IF mouse_updated(info)
  THEN [p EXCEPT !.last_pointer_shape_buffer = r.psb,
                 !.last_pointer_shape_buffer_size = info.PointerShapeBufferSize]
  ELSE [p EXCEPT !.last_pointer_shape_buffer = r.psb]

\* (mutant of simple_record_pointer_shape) the sizes are swapped, the
\* buffers are not
simple_record_swapping_sizes_only(p, r, info) ==
  IF mouse_updated(info)
  THEN [pointer_shape_buffer |-> p.pointer_shape_buffer,
        pointer_shape_buffer_size |-> info.PointerShapeBufferSize,
        last_pointer_shape_buffer |-> r.psb,
        last_pointer_shape_buffer_size |-> p.pointer_shape_buffer_size]
  ELSE [p EXCEPT !.last_pointer_shape_buffer = r.psb]

\* (mutant of simple_record_pointer_shape) the buffers are swapped, the
\* sizes are not
simple_record_swapping_buffers_only(p, r, info) ==
  IF mouse_updated(info)
  THEN [pointer_shape_buffer |-> r.psb,
        pointer_shape_buffer_size |-> p.pointer_shape_buffer_size,
        last_pointer_shape_buffer |-> p.pointer_shape_buffer,
        last_pointer_shape_buffer_size |-> info.PointerShapeBufferSize]
  ELSE [p EXCEPT !.last_pointer_shape_buffer = r.psb]

\* SimpleCapturer::capture_with_pointer_shape, after the context call
\* returned Ok: the context wrote into last_pointer_shape_buffer; if the
\* mouse was updated record the size in the last slot and swap the slots.
simple_record_pointer_shape(p, r, info) ==
  IF mouse_updated(info)
  THEN [pointer_shape_buffer |-> r.psb,
        pointer_shape_buffer_size |-> info.PointerShapeBufferSize,
        last_pointer_shape_buffer |-> p.pointer_shape_buffer,
        last_pointer_shape_buffer_size |-> p.pointer_shape_buffer_size]
  ELSE [p EXCEPT !.last_pointer_shape_buffer = r.psb]

----------------------------------------------------------------------------
(* State machine *)

Ops == {"new", "check_buffer", "capture", "safe_capture",
        "capture_with_pointer_shape", "safe_capture_with_pointer_shape"}

\* The last operation: which, how it ended, what the environment did to it
\* (the failing query of check_buffer, the failing step of the capture), the
\* capture steps that ran, and on Ok the frame info it returned and the
\* pointer bitmap the context extracted.
CallRecord(op, outcome, query, fault, steps, info, shape) ==
  [op |-> op, outcome |-> outcome, query |-> query, fault |-> fault,
   steps |-> steps, info |-> info, shape |-> shape]

\* (mutant of Init) SimpleCapturer::allocate sizes the buffer from the
\* logical extent, without the DPI
InitSizedFromLogicalExtent(e) ==
  /\ kind \in {"custom", "simple"}
  /\ \E m \in e.modes : desc = m[1] /\ dpi = m[2]
  /\ texture = create_readable_texture(desc)
  /\ buffer \in IF kind = "simple"
                THEN {Fill(required_buffer_bytes(desc, BaseDpi), 0)}
                ELSE {Fill(n, 0) :
                        n \in (required_buffer_bytes(desc, dpi) - e.slack)
                               ..(required_buffer_bytes(desc, dpi) + e.slack)}
  /\ pointer_shape_buffer = <<>>
  /\ pointer_shape_buffer_size = 0
  /\ last_pointer_shape_buffer = <<>>
  /\ last_pointer_shape_buffer_size = 0
  /\ held = FALSE
  /\ mapped = FALSE
  /\ alive = TRUE
  /\ acquireWhileHeld = FALSE
  /\ acquireAttempts = 0
  /\ copied = 0
  /\ call = CallRecord("new", "Ok", "none", "none", <<>>, NoInfo, <<>>)
  /\ pure = NoPure

\* SimpleCapturer::new / allocate: the texture has the descriptor's extent,
\* the buffer calc_buffer_size(dpi) zero bytes.  CustomCapturer::new: the
\* texture has the descriptor's extent, the buffer is the caller's.
Init(e) ==
  /\ kind \in {"custom", "simple"}
  /\ \E m \in e.modes : desc = m[1] /\ dpi = m[2]
  /\ texture = create_readable_texture(desc)
  /\ buffer \in IF kind = "simple"
                THEN {Fill(required_buffer_bytes(desc, dpi), 0)}
                ELSE {Fill(n, 0) :
                        n \in (required_buffer_bytes(desc, dpi) - e.slack)
                               ..(required_buffer_bytes(desc, dpi) + e.slack)}
  /\ pointer_shape_buffer = <<>>
  /\ pointer_shape_buffer_size = 0
  /\ last_pointer_shape_buffer = <<>>
  /\ last_pointer_shape_buffer_size = 0
  /\ held = FALSE
  /\ mapped = FALSE
  /\ alive = TRUE
  /\ acquireWhileHeld = FALSE
  /\ acquireAttempts = 0
  /\ copied = 0
  /\ call = CallRecord("new", "Ok", "none", "none", <<>>, NoInfo, <<>>)
  /\ pure = NoPure

Session == Begin(held, acquireWhileHeld, mapped, buffer)

SessionBecomes(st) ==
  /\ held' = st.held
  /\ acquireWhileHeld' = st.whileHeld
  /\ mapped' = st.mapped
  /\ buffer' = st.dest
  /\ alive' = (st.outcome # "Crash")
  /\ acquireAttempts' = st.attempts
  /\ copied' = st.copied

PointerBecomes(p) ==
  /\ pointer_shape_buffer' = p.pointer_shape_buffer
  /\ pointer_shape_buffer_size' = p.pointer_shape_buffer_size
  /\ last_pointer_shape_buffer' = p.last_pointer_shape_buffer
  /\ last_pointer_shape_buffer_size' = p.last_pointer_shape_buffer_size

Pointer ==
  PointerState(pointer_shape_buffer, pointer_shape_buffer_size,
               last_pointer_shape_buffer, last_pointer_shape_buffer_size)

\* (mutant of Rejected) the check reallocates the destination buffer to the
\* size the display requires
RejectedAndResized(op, outcome, q) ==
  /\ call' = CallRecord(op, outcome, q, "none", <<>>, NoInfo, <<>>)
  /\ acquireAttempts' = 0
  /\ copied' = 0
  /\ buffer' = Fill(required_buffer_bytes(desc, dpi), 0)
  /\ UNCHANGED <<kind, desc, dpi, texture, pointer_shape_buffer,
                 pointer_shape_buffer_size, last_pointer_shape_buffer,
                 last_pointer_shape_buffer_size, held, mapped, alive,
                 acquireWhileHeld, pure>>

\* check_buffer()? returned early with an error: nothing else ran.
Rejected(op, outcome, q) ==
  /\ call' = CallRecord(op, outcome, q, "none", <<>>, NoInfo, <<>>)
  /\ acquireAttempts' = 0
  /\ copied' = 0
  /\ UNCHANGED <<kind, desc, dpi, texture, buffer, pointer_shape_buffer,
                 pointer_shape_buffer_size, last_pointer_shape_buffer,
                 last_pointer_shape_buffer_size, held, mapped, alive,
                 acquireWhileHeld, pure>>

\* Capturer::capture (both capturers):
\* self.ctx.capture(self.buffer.as_mut_ptr(), self.buffer.len(), &self.texture)
capture(op, fault, pix, ub, info) ==
  \E c \in {capture_frame(Session, Len(buffer), texture, fault, pix, ub)} :
  /\ SessionBecomes(c)
  /\ call' = CallRecord(op, c.outcome, "none", fault, c.steps,
                        IF c.outcome = "Ok" THEN info ELSE NoInfo, <<>>)
  /\ UNCHANGED <<kind, desc, dpi, texture, pointer_shape_buffer,
                 pointer_shape_buffer_size, last_pointer_shape_buffer,
                 last_pointer_shape_buffer_size, pure>>

\* (mutant of capture_with_pointer_shape) no early return on an error of
\* the context: the shape is recorded from a default (all-zero) frame info
capture_with_pointer_shape_recording_on_error(op, fault, pix, ub, info, shape) ==
  \E r \in {ctx_capture_with_pointer_shape(
               Session, Len(buffer), texture, fault, pix, ub, info, shape,
               IF kind = "custom" THEN pointer_shape_buffer
               ELSE last_pointer_shape_buffer)} :
  \E got \in {IF r.st.outcome = "Ok" THEN info ELSE FrameInfo(0, 0, <<>>)} :
  /\ SessionBecomes(r.st)
  /\ PointerBecomes(IF kind = "custom"
                    THEN custom_record_pointer_shape(Pointer, r, got)
                    ELSE simple_record_pointer_shape(Pointer, r, got))
  /\ call' = CallRecord(op, r.st.outcome, "none", fault, r.st.steps,
                        IF r.st.outcome = "Ok" THEN info ELSE NoInfo,
                        IF r.some THEN shape ELSE <<>>)
  /\ UNCHANGED <<kind, desc, dpi, texture, pure>>

\* Capturer::capture_with_pointer_shape: the custom capturer hands the
\* context its pointer_shape_buffer, the simple one its
\* last_pointer_shape_buffer; on Ok the capturer records the shape.
capture_with_pointer_shape(op, fault, pix, ub, info, shape) ==
  \E r \in {ctx_capture_with_pointer_shape(
               Session, Len(buffer), texture, fault, pix, ub, info, shape,
               IF kind = "custom" THEN pointer_shape_buffer
               ELSE last_pointer_shape_buffer)} :
  /\ SessionBecomes(r.st)
  /\ PointerBecomes(IF r.st.outcome # "Ok" THEN Pointer
                    ELSE IF kind = "custom"
                    THEN custom_record_pointer_shape(Pointer, r, info)
                    ELSE simple_record_pointer_shape(Pointer, r, info))
  /\ call' = CallRecord(op, r.st.outcome, "none", fault, r.st.steps,
                        IF r.st.outcome = "Ok" THEN info ELSE NoInfo,
                        IF r.some THEN shape ELSE <<>>)
  /\ UNCHANGED <<kind, desc, dpi, texture, pure>>

\* An environment bounds what the caller and the operating system do in a
\* behaviour: the steps that can fail, the pointer bitmaps the compositor
\* hands out, the display modes <<extent, dpi>> it can switch between, the
\* pixel bytes of its frames and how far from the required size the buffer
\* a caller gives a CustomCapturer is.
Env(faults, shapes, modes, pixels, slack) ==
  [faults |-> faults, shapes |-> shapes, modes |-> modes, pixels |-> pixels,
   slack |-> slack]

CheckBuffer ==
  /\ alive
  /\ \E q \in QueryFaults(kind) :
       Rejected("check_buffer", check_buffer(kind, Len(buffer), desc, dpi, q), q)

Capture(e) ==
  /\ alive
  /\ \E fault \in e.faults :
       \E f \in Frames(fault, e.pixels, {<<>>}), ub \in UBs(Len(buffer), texture) :
         capture("capture", fault, f.pix, ub, FrameInfo(f.present, f.mouse, f.shape))

\* self.check_buffer()?; self.capture()
SafeCapture(e) ==
  /\ alive
  /\ \E q \in QueryFaults(kind) :
       LET checked == check_buffer(kind, Len(buffer), desc, dpi, q) IN
       IF checked # "Ok" THEN Rejected("safe_capture", checked, q)
       ELSE \E fault \in e.faults :
              \E f \in Frames(fault, e.pixels, {<<>>}), ub \in UBs(Len(buffer), texture) :
                capture("safe_capture", fault, f.pix, ub,
                        FrameInfo(f.present, f.mouse, f.shape))

CaptureWithPointerShape(e) ==
  /\ alive
  /\ \E fault \in e.faults :
       \E f \in Frames(fault, e.pixels, e.shapes), ub \in UBs(Len(buffer), texture) :
         capture_with_pointer_shape("capture_with_pointer_shape", fault, f.pix, ub,
                                    FrameInfo(f.present, f.mouse, f.shape), f.shape)

\* self.check_buffer()?; self.capture_with_pointer_shape()
SafeCaptureWithPointerShape(e) ==
  /\ alive
  /\ \E q \in QueryFaults(kind) :
       LET checked == check_buffer(kind, Len(buffer), desc, dpi, q) IN
       IF checked # "Ok" THEN Rejected("safe_capture_with_pointer_shape", checked, q)
       ELSE \E fault \in e.faults :
              \E f \in Frames(fault, e.pixels, e.shapes), ub \in UBs(Len(buffer), texture) :
                capture_with_pointer_shape("safe_capture_with_pointer_shape", fault,
                                           f.pix, ub,
                                           FrameInfo(f.present, f.mouse, f.shape), f.shape)

\* The display's resolution or scale changes between two calls.
ChangeGeometry(e) ==
  /\ alive
  /\ \E m \in e.modes :
       /\ m # <<desc, dpi>>
       /\ desc' = m[1]
       /\ dpi' = m[2]
  /\ UNCHANGED <<kind, texture, buffer, pointer_shape_buffer,
                 pointer_shape_buffer_size, last_pointer_shape_buffer,
                 last_pointer_shape_buffer_size, held, mapped, alive,
                 acquireWhileHeld, acquireAttempts, copied, call, pure>>

----------------------------------------------------------------------------
(* Specifications: the same capturer under two environments *)

\* every step can fail, every display mode, buffers around the required
\* size; the compositor has no pointer bitmap
SessionEnv == Env(Faults, {<<>>}, Modes, Pixels, MaxSlack)

InitSession == Init(SessionEnv)

NextSession ==
  \/ CheckBuffer
  \/ Capture(SessionEnv)
  \/ SafeCapture(SessionEnv)
  \/ CaptureWithPointerShape(SessionEnv)
  \/ SafeCaptureWithPointerShape(SessionEnv)
  \/ ChangeGeometry(SessionEnv)

Spec == InitSession /\ [][NextSession]_vars

\* every pointer bitmap; only the acquisition can fail, the display is not
\* scaled and the buffer has the required size
PointerEnv ==
  Env({"none", "timeout", "lost"}, Shapes, {<<g, BaseDpi>> : g \in Geoms}, {1}, 0)

InitPointer == Init(PointerEnv)

NextPointer ==
  \/ CheckBuffer
  \/ Capture(PointerEnv)
  \/ SafeCapture(PointerEnv)
  \/ CaptureWithPointerShape(PointerEnv)
  \/ SafeCaptureWithPointerShape(PointerEnv)
  \/ ChangeGeometry(PointerEnv)

SpecPointer == InitPointer /\ [][NextPointer]_vars

----------------------------------------------------------------------------
(* The pure helpers applied to sampled arguments.  The capturer is not     *)
(* touched; pure records the application and its result.                   *)

MaxTime == 3         \* timestamps -MaxTime..MaxTime (scaled-down 64-bit range)

\* widths and heights of the sampled descriptors: small, the 1920x1080 of
\* the unit test, and extents whose byte count passes 2^32
PureDims == {1, 2, 1080, 1920, 32768, 65535}

PureTimes == (0 - MaxTime)..MaxTime

InitPure ==
  /\ Init(Env({"none"}, {<<>>}, {<<Rect(0, 0, 1, 1), BaseDpi>>}, {1}, 0))
  /\ kind = "simple"

ApplyCalcBufferSize ==
  /\ \E w \in PureDims, h \in PureDims, scale \in Dpis, build \in {"debug", "release"} :
       pure' = [fn |-> "calc_buffer_size", desc |-> Rect(0, 0, w, h), dpi |-> scale,
                build |-> build,
                result |-> calc_buffer_size(Rect(0, 0, w, h), build)]
  /\ UNCHANGED capturerVars

ApplyDesktopUpdated ==
  /\ \E t \in PureTimes :
       pure' = [fn |-> "desktop_updated", LastPresentTime |-> t,
                result |-> desktop_updated(
                  [LastPresentTime |-> t, LastMouseUpdateTime |-> 0,
                   PointerShapeBufferSize |-> 0])]
  /\ UNCHANGED capturerVars

ApplyMouseUpdated ==
  /\ \E t \in PureTimes :
       pure' = [fn |-> "mouse_updated", LastMouseUpdateTime |-> t,
                result |-> mouse_updated(
                  [LastPresentTime |-> 0, LastMouseUpdateTime |-> t,
                   PointerShapeBufferSize |-> 0])]
  /\ UNCHANGED capturerVars

\* check_buffer of either capturer on a buffer of len bytes, around the
\* size the display requires
ApplyCheckBuffer ==
  /\ \E k \in {"custom", "simple"}, w \in {1, 2, 1920}, h \in {1, 1080}, scale \in Dpis :
       \E q \in QueryFaults(k), slack \in {0 - 1, 0, 1} :
         LET d == Rect(0, 0, w, h)
             len == required_buffer_bytes(d, scale) + slack
         IN pure' = [fn |-> "check_buffer", kind |-> k, desc |-> d, dpi |-> scale,
                     len |-> len, query |-> q,
                     result |-> check_buffer(k, len, d, scale, q)]
  /\ UNCHANGED capturerVars

\* the pointer-shape fields a capture can find: slots that differ
PurePointers ==
  {PointerState(cur, Len(cur), last, Len(last)) :
     cur \in {<<>>, <<1>>}, last \in {<<>>, <<2>>}}

\* SimpleCapturer::capture_with_pointer_shape on a frame that was acquired
\* and copied out: the context extracts the bitmap into the last slot, the
\* capturer records it.  pure keeps the fields before and after.
ApplyCapturePointerShape ==
  /\ \E t \in PureTimes, shape \in Shapes, p \in PurePointers :
       LET info == FrameInfo(1, t, shape)
           r == ctx_capture_with_pointer_shape(
                  Begin(FALSE, FALSE, FALSE, buffer), Len(buffer), texture, "none",
                  1, [crash |-> FALSE, byte |-> 0], info, shape,
                  p.last_pointer_shape_buffer)
       IN pure' = [fn |-> "capture_with_pointer_shape", LastMouseUpdateTime |-> t,
                   shape |-> shape, before |-> p, extracted |-> r.some,
                   after |-> simple_record_pointer_shape(p, r, info)]
  /\ UNCHANGED capturerVars

NextPure ==
  \/ ApplyCalcBufferSize
  \/ ApplyDesktopUpdated
  \/ ApplyMouseUpdated
  \/ ApplyCheckBuffer
  \/ ApplyCapturePointerShape

SpecPure == InitPure /\ [][NextPure]_vars

----------------------------------------------------------------------------
(* Properties *)

CaptureOps == {"capture", "safe_capture", "capture_with_pointer_shape",
               "safe_capture_with_pointer_shape"}

SafeOps == {"safe_capture", "safe_capture_with_pointer_shape"}

PointerOps == {"capture_with_pointer_shape", "safe_capture_with_pointer_shape"}

\* A step of a capturer operation (the display does not change under it).
IsCall == desc' = desc /\ dpi' = dpi

\* the position of the first x in s (0 if there is none)
IndexOf(s, x) ==
  IF \E i \in 1..Len(s) : s[i] = x
  THEN CHOOSE i \in 1..Len(s) : s[i] = x /\ \A j \in 1..(i - 1) : s[j] # x
  ELSE 0

\* C1: in every capture call the steps run in the order acquire, GPU copy,
\* release, map, byte copy, unmap; an Ok call ran them all; and the frame of
\* every successful acquire is released exactly once, after the GPU copy.
C1_Claim ==
  call.op \in CaptureOps =>
    /\ IsPrefixOf(call.steps, FullCapture)
    /\ (call.outcome = "Ok" /\ call.query = "none" => call.steps = FullCapture)
    /\ Count(call.steps, "release") = Count(call.steps, "acquire")
    /\ ("release" \in {call.steps[i] : i \in 1..Len(call.steps)} =>
          IndexOf(call.steps, "copy") < IndexOf(call.steps, "release"))

\* C2: the session never holds a frame when a capture call has returned or
\* failed, and no acquire is ever issued while a frame is held.
C2_Claim == alive => ~held /\ ~acquireWhileHeld

\* C3: whenever a capture call has returned or failed, every successful map
\* of the staging texture in it was followed by exactly one unmap, and the
\* texture is not left mapped.
C3_MapUnmapPaired ==
  call.outcome # "Crash" =>
    /\ ~mapped
    /\ Count(call.steps, "unmap") = Count(call.steps, "map")
    /\ ("map" \in {call.steps[i] : i \in 1..Len(call.steps)} =>
          IndexOf(call.steps, "map") < IndexOf(call.steps, "unmap"))

\* a call in which the surface was mapped and that then failed (Unmap
\* reported an error after unmapping)
C3_Witness ==
  /\ call.op \in CaptureOps
  /\ call.outcome = "Panic"
  /\ call.fault = "unmap"
  /\ Count(call.steps, "map") = 1

\* C4: a safe capture (with or without pointer shape) on a buffer shorter
\* than the size the display requires now fails with the undersized-buffer
\* error and acquires, copies, maps and writes nothing.
C4_UndersizedRejected ==
  [][(/\ IsCall
      /\ call' # call
      /\ call'.op \in SafeOps
      /\ call'.query = "none"
      /\ Len(buffer) < required_buffer_bytes(desc, dpi))
     => (/\ call'.outcome = "InvalidBufferLength"
         /\ call'.steps = <<>>
         /\ UNCHANGED <<buffer, pointer_shape_buffer, pointer_shape_buffer_size,
                        last_pointer_shape_buffer, last_pointer_shape_buffer_size,
                        held, mapped, acquireWhileHeld, alive>>)]_vars

\* a safe capture was rejected on a buffer that an earlier capture had
\* written, with the session free
C4_Witness ==
  /\ call.op \in SafeOps
  /\ call.outcome = "InvalidBufferLength"
  /\ Len(buffer) < required_buffer_bytes(desc, dpi)
  /\ \E i \in 1..Len(buffer) : buffer[i] # 0
  /\ ~held

\* the value of pointer_shape_buffer() / pointer_shape_updated() in a state
View == pointer_shape_buffer_view(pointer_shape_buffer, pointer_shape_buffer_size)

Updated ==
  pointer_shape_updated(pointer_shape_buffer, pointer_shape_buffer_size,
                        last_pointer_shape_buffer, last_pointer_shape_buffer_size)

\* C5: SimpleCapturer: after two consecutive capture-with-pointer-shape
\* calls of which the second reports no mouse update, pointer_shape_updated()
\* is false and pointer_shape_buffer() is what it was after the first call.
C5_Claim ==
  [][(/\ IsCall
      /\ kind = "simple"
      /\ call.op \in PointerOps /\ call.outcome = "Ok"
      /\ call'.op \in PointerOps /\ call'.outcome = "Ok"
      /\ ~mouse_updated(call'.info))
     => (~Updated' /\ View' = View)]_vars

\* C6: SimpleCapturer: after a capture-with-pointer-shape call in which the
\* pointer shape changed (the frame has the mouse-update flag and a bitmap
\* that is not the current one), pointer_shape_updated() is true and
\* pointer_shape_buffer() differs from its value before the call.
C6_ShapeChangeDetected ==
  [][(/\ IsCall
      /\ kind = "simple"
      /\ call'.op \in PointerOps /\ call'.outcome = "Ok"
      /\ mouse_updated(call'.info)
      /\ call'.info.PointerShapeBufferSize > 0
      /\ call'.shape # View)
     => (Updated' /\ View' # View)]_vars

\* a new bitmap of the same length as the one it replaced, differing in a
\* byte, was captured
C6_Witness ==
  /\ kind = "simple"
  /\ call.op \in PointerOps /\ call.outcome = "Ok"
  /\ mouse_updated(call.info)
  /\ call.shape = View
  /\ pointer_shape_buffer_size > 0
  /\ pointer_shape_buffer_size = last_pointer_shape_buffer_size
  /\ View # pointer_shape_buffer_view(last_pointer_shape_buffer,
                                      last_pointer_shape_buffer_size)
  /\ Updated

\* C7: every failure of a capture step reaches the caller as an error value
\* of its own kind, never as a panic; an acquire timeout yields FrameTimeout
\* with no frame held, a lost session SessionLost.
C7_Claim ==
  /\ call.outcome # "Panic"
  /\ (call.fault = "timeout" => call.outcome = "FrameTimeout" /\ ~held)
  /\ (call.fault = "lost" => call.outcome = "SessionLost")

\* C8: check_buffer succeeds exactly when the buffer has at least the
\* required bytes of the display, and fails with the undersized-buffer error
\* otherwise, for both capturers; 1920x1080 unscaled requires 8,294,400.
C8_CheckBufferThreshold ==
  (pure.fn = "check_buffer" /\ pure.query = "none") =>
    /\ pure.result = (IF pure.len >= required_buffer_bytes(pure.desc, pure.dpi)
                      THEN "Ok" ELSE "InvalidBufferLength")
    /\ (pure.desc = Rect(0, 0, 1920, 1080) /\ pure.dpi = BaseDpi) =>
         /\ pure.len = 8294400 => pure.result = "Ok"
         /\ pure.len = 8294399 => pure.result = "InvalidBufferLength"

\* the custom capturer rejected 8,294,399 bytes for 1920x1080
C8_Witness ==
  /\ pure.fn = "check_buffer"
  /\ pure.kind = "custom"
  /\ pure.desc = Rect(0, 0, 1920, 1080) /\ pure.dpi = BaseDpi
  /\ pure.len = 8294399
  /\ pure.result = "InvalidBufferLength"

\* C9: the computed buffer size is physicalWidth * physicalHeight * 4 as a
\* mathematical product, for every extent and DPI scale.
C9_Claim ==
  pure.fn = "calc_buffer_size" =>
    /\ ~pure.result.panicked
    /\ Pad(pure.result.bytes, 12) =
         MulLimbs(MulLimbs(U32(pixel_width(pure.desc, pure.dpi)),
                           U32(pixel_height(pure.desc, pure.dpi))),
                  U32(BytesPerPixel))

\* C10: desktop_updated is false for LastPresentTime = 0 and true for every
\* other value.
C10_Claim ==
  pure.fn = "desktop_updated" => pure.result = (pure.LastPresentTime # 0)

\* C11: mouse_updated is true exactly when LastMouseUpdateTime = 0, and that
\* flag gates the extraction of the pointer shape and the swap of the
\* SimpleCapturer's slots: both happen when the timestamp is 0, neither
\* otherwise.
C11_MouseUpdatedGates ==
  /\ pure.fn = "mouse_updated" => pure.result = (pure.LastMouseUpdateTime = 0)
  /\ pure.fn = "capture_with_pointer_shape" =>
       /\ pure.extracted = (pure.LastMouseUpdateTime = 0)
       /\ IF pure.LastMouseUpdateTime = 0
          THEN /\ pure.after.last_pointer_shape_buffer = pure.before.pointer_shape_buffer
               /\ pure.after.last_pointer_shape_buffer_size =
                    pure.before.pointer_shape_buffer_size
               /\ pure.after.pointer_shape_buffer_size = Len(pure.shape)
               /\ Prefix(pure.after.pointer_shape_buffer, Len(pure.shape)) = pure.shape
          ELSE pure.after = pure.before

\* a frame with a zero timestamp had its one-byte shape extracted and
\* swapped into the current slot
C11_Witness ==
  /\ pure.fn = "capture_with_pointer_shape"
  /\ pure.LastMouseUpdateTime = 0
  /\ pure.extracted
  /\ pure.shape = <<2>>
  /\ pure.before.pointer_shape_buffer = <<1>>
  /\ pure.after.pointer_shape_buffer = <<2>>
  /\ pure.after.last_pointer_shape_buffer = <<1>>

\* C12: one capture call issues at most one AcquireNextFrame; on a timeout
\* or a lost session it returns that error (FrameTimeout, SessionLost)
\* having issued exactly one, for all four capture operations.
C12_Claim ==
  call.op \in CaptureOps =>
    /\ acquireAttempts <= 1
    /\ call.fault = "timeout" => call.outcome = "FrameTimeout" /\ acquireAttempts = 1
    /\ call.fault = "lost" => call.outcome = "SessionLost" /\ acquireAttempts = 1

\* the outcome check_buffer() has in a state when its queries succeed
CheckOutcome == check_buffer(kind, Len(buffer), desc, dpi, "none")

\* C13: as long as the geometry does not change, no capturer operation
\* changes the outcome check_buffer() gives, so repeated calls, with or
\* without captures in between, agree; and check_buffer() itself changes no
\* capturer state.
C13_CheckBufferIdempotent ==
  [][IsCall =>
       /\ CheckOutcome' = CheckOutcome
       /\ (call'.op = "check_buffer" /\ call'.query = "none") =>
            call'.outcome = CheckOutcome
       /\ call'.op = "check_buffer" =>
            UNCHANGED <<kind, texture, buffer, pointer_shape_buffer,
                        pointer_shape_buffer_size, last_pointer_shape_buffer,
                        last_pointer_shape_buffer_size, held, mapped, alive>>]_vars

\* check_buffer() rejected a buffer that a capture had written before
C13_Witness ==
  /\ call.op = "check_buffer"
  /\ call.outcome = "InvalidBufferLength"
  /\ \E i \in 1..Len(buffer) : buffer[i] # 0

\* C14: the byte copy out of the mapped staging texture transfers
\* min(destination length, mapped surface size) bytes: no capture reads past
\* the end of the mapped surface or writes past the end of the destination.
C14_Claim ==
  (call.op \in CaptureOps /\ "memcpy" \in {call.steps[i] : i \in 1..Len(call.steps)}) =>
    /\ copied = (IF Len(buffer) <= surface_bytes(texture)
                 THEN Len(buffer) ELSE surface_bytes(texture))
    /\ copied <= surface_bytes(texture)
    /\ copied <= Len(buffer)
    /\ alive

\* C15: the safe captures check the buffer against the display's geometry
\* at the time of the call: after a safe capture that succeeded, if the
\* display has grown so that the required size exceeds the buffer's length,
\* the next safe capture fails with the undersized-buffer error.
C15_GeometryRecomputed ==
  [][(/\ IsCall
      /\ call.op \in SafeOps /\ call.outcome = "Ok"
      /\ call'.op \in SafeOps /\ call'.query = "none"
      /\ Len(buffer) < required_buffer_bytes(desc, dpi))
     => (call'.outcome = "InvalidBufferLength" /\ call'.steps = <<>>)]_vars

\* a SimpleCapturer, whose buffer had the required size when it was
\* constructed and was written by a capture, had a safe capture rejected
\* on the grown display
C15_Witness ==
  /\ kind = "simple"
  /\ call.op \in SafeOps
  /\ call.outcome = "InvalidBufferLength"
  /\ \E i \in 1..Len(buffer) : buffer[i] # 0
  /\ Len(buffer) >= surface_bytes(texture)
  /\ Len(buffer) < required_buffer_bytes(desc, dpi)

\* C16: SimpleCapturer::capture_with_pointer_shape that returns Ok: if the
\* frame's mouse-update flag is set, the current slot (buffer and valid
\* length) holds the shape written in this call and the previous slot holds
\* what the current slot held before; if not, the current slot and both
\* recorded lengths are unchanged.
C16_SlotsAfterCapture ==
  [][(/\ IsCall
      /\ kind = "simple"
      /\ call'.op \in PointerOps /\ call'.outcome = "Ok")
     => IF mouse_updated(call'.info)
        THEN /\ pointer_shape_buffer_size' = Len(call'.shape)
             /\ View' = call'.shape
             /\ last_pointer_shape_buffer' = pointer_shape_buffer
             /\ last_pointer_shape_buffer_size' = pointer_shape_buffer_size
        ELSE UNCHANGED <<pointer_shape_buffer, pointer_shape_buffer_size,
                         last_pointer_shape_buffer_size>>]_vars

\* the shape <<2>> was swapped in over the shape <<1>>, now in the previous slot
C16_Witness ==
  /\ kind = "simple"
  /\ call.op \in PointerOps /\ call.outcome = "Ok"
  /\ mouse_updated(call.info)
  /\ call.shape = <<2>>
  /\ View = <<2>>
  /\ last_pointer_shape_buffer_size = 1
  /\ Prefix(last_pointer_shape_buffer, 1) = <<1>>

\* what holds of a SimpleCapturer while the display is as it was when the
\* capturer was constructed
SizedForDisplay ==
  /\ Len(buffer) = required_buffer_bytes(desc, dpi)
  /\ CheckOutcome = "Ok"

\* C17: a SimpleCapturer just constructed has a buffer of exactly the
\* required bytes of the effective geometry, passes check_buffer(), has an
\* empty pointer_shape_buffer() and pointer_shape_updated() false; and as
\* long as geometry and DPI do not change the buffer keeps the required
\* length, check_buffer() keeps succeeding and no safe capture is rejected
\* as undersized.
C17_FreshSimpleCapturer ==
  /\ kind = "simple" => (SizedForDisplay /\ View = <<>> /\ ~Updated)
  /\ [][(IsCall /\ kind = "simple" /\ SizedForDisplay)
         => /\ SizedForDisplay'
            /\ call'.op \in SafeOps => call'.outcome # "InvalidBufferLength"
            /\ (call'.op = "check_buffer" /\ call'.query = "none") =>
                 call'.outcome = "Ok"]_vars

\* a SimpleCapturer constructed on a scaled display had a safe capture
\* accepted and check_buffer() succeed afterwards
C17_Witness ==
  /\ kind = "simple"
  /\ dpi = 2 * BaseDpi
  /\ call.op = "check_buffer" /\ call.outcome = "Ok"
  /\ Len(buffer) = required_buffer_bytes(desc, dpi)
  /\ \E i \in 1..Len(buffer) : buffer[i] # 0

\* C18: in every state of either capturer each recorded pointer-shape
\* length is at most the length of its backing buffer, for the current and
\* for the previous slot, so pointer_shape_buffer() and the prefix
\* comparison of pointer_shape_updated() stay in range.
C18_SizesWithinBuffers ==
  /\ pointer_shape_buffer_size <= Len(pointer_shape_buffer)
  /\ last_pointer_shape_buffer_size <= Len(last_pointer_shape_buffer)
  /\ (pointer_shape_buffer_size = last_pointer_shape_buffer_size =>
        pointer_shape_buffer_size <= Len(last_pointer_shape_buffer))

\* both slots of a SimpleCapturer hold a recorded shape, after a capture
\* that failed
C18_Witness ==
  /\ kind = "simple"
  /\ pointer_shape_buffer_size = 1
  /\ last_pointer_shape_buffer_size = 1
  /\ call.op \in PointerOps /\ call.outcome = "Panic"

\* C19: once a non-empty pointer shape has been captured, every later
\* capture with pointer shape that returns Ok and produces no new shape
\* (shape byte size 0), with or without the mouse-update flag, leaves
\* pointer_shape_buffer() non-empty and equal to that shape, for both
\* capturers.
C19_Claim ==
  [][(/\ IsCall
      /\ View # <<>>
      /\ call'.op \in PointerOps /\ call'.outcome = "Ok"
      /\ call'.info.PointerShapeBufferSize = 0)
     => View' = View]_vars

\* C20: a capture call that fails (timeout, lost session, undersized
\* buffer in the safe variants) leaves the recorded current and previous
\* lengths, the current slot, pointer_shape_buffer() and
\* pointer_shape_updated() as they were; capture() and safe_capture() never
\* change them.
C20_FailurePreservesPointerShape ==
  [][(/\ IsCall
      /\ call'.op \in CaptureOps
      /\ call'.outcome # "Ok" \/ call'.op \in {"capture", "safe_capture"})
     => (/\ UNCHANGED <<pointer_shape_buffer, pointer_shape_buffer_size,
                        last_pointer_shape_buffer_size>>
         /\ View' = View
         /\ Updated' = Updated)]_vars

\* a capture with pointer shape failed on a SimpleCapturer whose current
\* slot holds a shape that differs from the previous one
C20_Witness ==
  /\ kind = "simple"
  /\ call.op \in PointerOps
  /\ call.fault \in {"timeout", "lost"}
  /\ call.outcome # "Ok"
  /\ View # <<>>
  /\ Updated

====
